---- MODULE Spec2Model ----
(***************************************************************************)
(* Wildfire inference services: the Flask handlers of                      *)
(* src/src/MachineLearningModels/EdgeDeviceModelArtifacts/                 *)
(* image_inference_api.py ("edge") and src/api/image_inference_api.py      *)
(* ("api"), and the tabular loader of .../inference.py.                    *)
(***************************************************************************)
EXTENDS Integers, Sequences, FiniteSets, TLC

VARIABLES
    svc,                \* which program runs: "edge" or "api"
    entry,              \* how it was started: "script" or "wsgi"
    phase,              \* __main__: "boot", "serving", "exited"
    wFile,              \* image weights file on disk: "present" / "absent"
    api_model,          \* image_inference_api._model
    api_preprocess,     \* image_inference_api._preprocess
    rfFile,             \* fire_risk_model.joblib on disk: "present" / "absent"
    fnFile,             \* feature_names.json on disk: "present" / "absent"
    trained,            \* the feature list the training run wrote to both artifacts
    inf_model,          \* inference._model
    inf_feature_names,  \* inference._feature_names
    req,                \* the request being answered
    resp,               \* the answer to the last request, with what the handler did
    hist,               \* per loader: has a load succeeded, did the last call fail
    pc,                 \* per thread: position inside the loader call it runs
    loc                 \* per thread: locals and return value of that call

vars == <<svc, entry, phase, wFile, api_model, api_preprocess, rfFile, fnFile, trained,
          inf_model, inf_feature_names, req, resp, hist, pc, loc>>

----------------------------------------------------------------------------
(* Bounds *)

\* most keys a generated weather object holds
MaxKeys == 2

----------------------------------------------------------------------------
(* JSON / Python values *)

\* Python None, which is also what JSON null parses to
None == [t |-> "null", v |-> 0]
Num(n) == [t |-> "num", v |-> n]
\* a string that float() parses, e.g. "25"
NumStr(n) == [t |-> "numstr", v |-> n]
\* a string that float() rejects, e.g. "warm"
Text == [t |-> "text", v |-> 0]

\* dict.get(key, default)
Get(d, k, default) == IF k \in DOMAIN d THEN d[k] ELSE default

EmptyDict == [k \in {} |-> None]

\* the value None of a module-level handle (_model, _preprocess)
Unset == [kind |-> "None"]

----------------------------------------------------------------------------
(* inference.py: the tabular loader *)

FEATURES == <<"MIN_TEMP", "MAX_TEMP", "AVG_WIND_SPEED", "DAY_OF_YEAR">>

\* what joblib.load returns: the classifier, which remembers its training columns
Classifier(cols) == [kind |-> "rf", cols |-> cols]

\* _ensure_loaded(): the new module state, the exception raised (or "none"),
\* and the files the call touched
ensure_loaded(m, fn, rf, fnf, content) ==
    IF m # Unset
    THEN [model |-> m, names |-> fn, raised |-> "none", touched |-> {}]
    ELSE IF rf # "present"
    THEN [model |-> m, names |-> fn, raised |-> "FileNotFoundError",
          touched |-> {"joblib"}]
    ELSE IF fnf # "present"
    THEN [model |-> Classifier(content), names |-> fn,
          raised |-> "FileNotFoundError", touched |-> {"joblib", "json"}]
    ELSE [model |-> Classifier(content), names |-> content, raised |-> "none",
          touched |-> {"joblib", "json"}]

\* _model.predict / predict_proba on DataFrame([features], columns=_feature_names):
\* scikit-learn raises ValueError unless the columns are the training columns
ClassifierAccepts(m, names) == m # Unset /\ names = m.cols

----------------------------------------------------------------------------
(* image_inference_api.py (edge): weather features *)

\* a _to_float that lets a missing value through as 0.0 instead of raising
to_float_lenient(value, field_name) ==
    IF value.t \in {"num", "numstr", "null"}
    THEN [ok |-> TRUE, val |-> value.v, field |-> field_name]
    ELSE [ok |-> FALSE, val |-> 0, field |-> field_name]

\* _to_float(value, field_name): float(value), or ValueError naming the field
to_float(value, field_name) ==
    IF value.t \in {"num", "numstr"}
    THEN [ok |-> TRUE, val |-> value.v, field |-> field_name]
    ELSE [ok |-> FALSE, val |-> 0, field |-> field_name]

\* payload.get("weatherData", payload)
WeatherOf(payload) == IF payload.nested THEN payload.wd ELSE payload.top

\* lines 89-95: the four raw values, before coercion
RawMinTemp(weather) ==
    Get(weather, "MIN_TEMP", Get(weather, "minTemperature", Get(weather, "temperature", None)))

\* a max_temp chain that asks for the generic temperature before maxTemperature
RawMaxTempGenericFirst(weather) ==
    Get(weather, "MAX_TEMP", Get(weather, "temperature", Get(weather, "maxTemperature", None)))

RawMaxTemp(weather) ==
    Get(weather, "MAX_TEMP", Get(weather, "maxTemperature", Get(weather, "temperature", None)))

RawAvgWindSpeed(weather) == Get(weather, "AVG_WIND_SPEED", Get(weather, "windSpeed", None))

RawDayOfYear(payload, today) ==
    LET day_of_year == Get(WeatherOf(payload), "DAY_OF_YEAR", Get(payload.top, "dayOfYear", None))
    IN  IF day_of_year = None THEN Num(today) ELSE day_of_year

\* lines 97-102: the features dict, in the order its keys are inserted
Coerced(payload, today) ==
    << to_float(RawMinTemp(WeatherOf(payload)), "MIN_TEMP"),
       to_float(RawMaxTemp(WeatherOf(payload)), "MAX_TEMP"),
       to_float(RawAvgWindSpeed(WeatherOf(payload)), "AVG_WIND_SPEED"),
       to_float(RawDayOfYear(payload, today), "DAY_OF_YEAR") >>

\* index of the first _to_float call that raises, 0 when none does
FirstInvalid(cs) ==
    IF \E i \in 1..Len(cs) : ~cs[i].ok
    THEN CHOOSE i \in 1..Len(cs) : ~cs[i].ok /\ \A j \in 1..(i - 1) : cs[j].ok
    ELSE 0

\* features[name]
FeatureValue(cs, name) == cs[CHOOSE i \in 1..Len(cs) : cs[i].field = name].val

HasFeature(cs, name) == \E i \in 1..Len(cs) : cs[i].field = name

\* a line 110 that returns the features dict as built, without reordering
ReorderSkipped(cs, model_feature_names) ==
    [i \in 1..Len(cs) |-> [k |-> cs[i].field, v |-> cs[i].val]]

\* line 110: {name: features[name] for name in model_feature_names}
Reorder(cs, model_feature_names) ==
    [i \in 1..Len(model_feature_names) |->
        [k |-> model_feature_names[i], v |-> FeatureValue(cs, model_feature_names[i])]]

\* _extract_weather_features(payload), with the module state of inference.py
\* it reads and leaves behind
extract_weather_features(payload, today, m, fn, rf, fnf, content) ==
    LET cs == Coerced(payload, today)
        bad == FirstInvalid(cs)
        ld == ensure_loaded(m, fn, rf, fnf, content)
        locals == [kind |-> "weather",
                   min_temp |-> RawMinTemp(WeatherOf(payload)),
                   max_temp |-> RawMaxTemp(WeatherOf(payload)),
                   avg_wind_speed |-> RawAvgWindSpeed(WeatherOf(payload)),
                   day_of_year |-> RawDayOfYear(payload, today)]
    IN  IF bad # 0
        THEN [raised |-> "ValueError", field |-> cs[bad].field, features |-> <<>>,
              model |-> m, names |-> fn, calls |-> <<>>, touched |-> {},
              locals |-> locals]
        ELSE IF ld.raised # "none"
        THEN [raised |-> ld.raised, field |-> "", features |-> <<>>,
              model |-> ld.model, names |-> ld.names,
              calls |-> <<"get_feature_names">>, touched |-> ld.touched,
              locals |-> locals]
        ELSE IF \E i \in 1..Len(ld.names) : ~HasFeature(cs, ld.names[i])
        THEN [raised |-> "KeyError", field |-> "", features |-> <<>>,
              model |-> ld.model, names |-> ld.names,
              calls |-> <<"get_feature_names">>, touched |-> ld.touched,
              locals |-> locals]
        ELSE [raised |-> "none", field |-> "", features |-> Reorder(cs, ld.names),
              model |-> ld.model, names |-> ld.names,
              calls |-> <<"get_feature_names">>, touched |-> ld.touched,
              locals |-> locals]

----------------------------------------------------------------------------
(* Answers *)

NoResp == [ep |-> "none"]

\* a JSON error body {"error": <text>}: the text, and the feature it names (or "")
ErrorBody(text, field) == [kind |-> "error", error |-> text, field |-> field]

\* one answer: endpoint, status, JSON body, then what the handler did on the way:
\* the inference.py functions it called, its first loader call's record, the
\* statuses of the GETs it issued, and the values of its local variables
Resp(ep, status, out, calls, load, gets, locals) ==
    [ep |-> ep, status |-> status, out |-> out, calls |-> calls, load |-> load,
     gets |-> gets, locals |-> locals]

NoLocals == [kind |-> "none"]

NoLoad == [loader |-> "none"]

\* the record of one loader call: the history before it, what it touched and raised
LoadRec(loader, h, was, touched, raised) ==
    [loader |-> loader, succBefore |-> h.succ, failBefore |-> h.failed,
     cachedBefore |-> (was # Unset), touched |-> touched, raised |-> raised]

\* the loader history after a call that touched `touched` and raised `raised`:
\* a load has succeeded once a call read the artifacts and returned
HistAfter(h, touched, raised) ==
    [succ |-> h.succ \/ (raised = "none" /\ touched # {}), failed |-> raised # "none"]

----------------------------------------------------------------------------
(* image_inference_api.py (edge): POST /predict-weather-risk *)

\* `if not payload`: None and {} are falsy
Truthy(body) ==
    /\ body.kind = "object"
    /\ (body.payload.nested \/ DOMAIN body.payload.top # {})

\* round(p, 4) and round(p * 100, 2) of a probability given in units of 1e-5:
\* the result in units of 1e-4, ties to even
Round4(p) ==
    LET q == p \div 10
        r == p % 10
    IN  IF r > 5 \/ (r = 5 /\ q % 2 = 1) THEN q + 1 ELSE q

\* predict_weather_risk(): the answer and the module state of inference.py left
\* behind, for a classifier that answers class cls and probability p
weather_risk(body, today, m, fn, h, rf, fnf, content, cls, p) ==
    IF body.kind = "malformed"
    THEN [resp |-> Resp("weather", 500, ErrorBody("400 Bad Request", ""), <<>>, NoLoad, <<>>, NoLocals),
          model |-> m, names |-> fn, hist |-> h]
    ELSE IF ~Truthy(body)
    THEN [resp |-> Resp("weather", 400, ErrorBody("No JSON body provided", ""), <<>>,
                        NoLoad, <<>>, NoLocals),
          model |-> m, names |-> fn, hist |-> h]
    ELSE
    LET ex == extract_weather_features(body.payload, today, m, fn, rf, fnf, content)
        load == IF ex.calls = <<>> THEN NoLoad
                ELSE LoadRec("inf", h, m, ex.touched,
                             IF ex.raised = "KeyError" THEN "none" ELSE ex.raised)
        h2 == IF ex.calls = <<>> THEN h ELSE HistAfter(h, ex.touched, load.raised)
    IN  IF ex.raised = "ValueError"
        THEN [resp |-> Resp("weather", 400,
                            ErrorBody("Invalid numeric value for", ex.field),
                            ex.calls, load, <<>>, ex.locals),
              model |-> ex.model, names |-> ex.names, hist |-> h2]
        ELSE IF ex.raised # "none"
        THEN [resp |-> Resp("weather", 500, ErrorBody(ex.raised, ""), ex.calls, load, <<>>, ex.locals),
              model |-> ex.model, names |-> ex.names, hist |-> h2]
        ELSE IF ~ClassifierAccepts(ex.model, ex.names)
        THEN [resp |-> Resp("weather", 400, ErrorBody("ValueError", ""),
                            ex.calls \o <<"predict">>, load, <<>>, ex.locals),
              model |-> ex.model, names |-> ex.names, hist |-> h2]
        ELSE [resp |-> Resp("weather", 200,
                            [kind |-> "risk", fire_risk_class |-> cls,
                             fire_risk_probability |-> Round4(p),
                             fire_risk_percent |-> Round4(p),
                             features_used |-> ex.features],
                            ex.calls \o <<"predict", "predict_proba">>, load, <<>>,
                            ex.locals),
              model |-> ex.model, names |-> ex.names, hist |-> h2]

----------------------------------------------------------------------------
(* image_inference_api.py (edge and api): the image loader and handlers *)

\* the image model and its transform, once built
ResNet18 == [kind |-> "resnet18"]
Compose == [kind |-> "Compose"]

\* a load_model that builds the model and returns it without keeping it
load_model_uncached(m, pp, wf) ==
    IF wf # "present"
    THEN [model |-> m, preprocess |-> pp, raised |-> "FileNotFoundError",
          ret |-> <<Unset, Unset>>, touched |-> {"pth"}]
    ELSE [model |-> m, preprocess |-> pp, raised |-> "none",
          ret |-> <<ResNet18, Compose>>, touched |-> {"pth"}]

\* load_model(): the new module state, the exception raised (or "none"), the
\* pair returned and the files the call touched
load_model(m, pp, wf) ==
    IF m # Unset
    THEN [model |-> m, preprocess |-> pp, raised |-> "none", ret |-> <<m, pp>>,
          touched |-> {}]
    ELSE IF wf # "present"
    THEN [model |-> m, preprocess |-> pp, raised |-> "FileNotFoundError",
          ret |-> <<Unset, Unset>>, touched |-> {"pth"}]
    ELSE [model |-> ResNet18, preprocess |-> Compose, raised |-> "none",
          ret |-> <<ResNet18, Compose>>, touched |-> {"pth"}]

\* the sigmoid output, in units of 1e-5: 0.5 and 1.0
Half == 50000
One == 100000

\* a threshold that also fires at exactly 0.5
FireDetectedFromHalf(p) == p >= Half

\* prob > 0.5
FireDetected(p) == p > Half

\* the 200 body of /predict and /predict-from-url
Prediction(p) ==
    [kind |-> "prediction", fire_detected |-> FireDetected(p),
     confidence |-> Round4(p), probability |-> Round4(p)]

\* Image.open(...).convert('RGB') succeeds on image bytes only
Decodes(data) == data = "image"

\* preprocess(img) and model(input_tensor) need both members of the pair
Usable(pair) == pair[1] # Unset /\ pair[2] # Unset

\* predict(): POST /predict
predict_upload(r, m, pp, h, wf, p) ==
    LET ld == load_model(m, pp, wf)
        load == LoadRec("api", h, m, ld.touched, ld.raised)
        h2 == HistAfter(h, ld.touched, ld.raised)
    IN  IF ~r.hasFile
        THEN [resp |-> Resp("predict", 400, ErrorBody("No image file provided", ""),
                            <<>>, NoLoad, <<>>, NoLocals),
              model |-> m, preprocess |-> pp, hist |-> h]
        ELSE IF r.filename = ""
        THEN [resp |-> Resp("predict", 400, ErrorBody("Empty filename", ""),
                            <<>>, NoLoad, <<>>, NoLocals),
              model |-> m, preprocess |-> pp, hist |-> h]
        ELSE IF ~Decodes(r.data)
        THEN [resp |-> Resp("predict", 500, ErrorBody("cannot identify image file", ""),
                            <<>>, NoLoad, <<>>, NoLocals),
              model |-> m, preprocess |-> pp, hist |-> h]
        ELSE IF ld.raised # "none"
        THEN [resp |-> Resp("predict", 500, ErrorBody(ld.raised, ""),
                            <<>>, load, <<>>, NoLocals),
              model |-> ld.model, preprocess |-> ld.preprocess, hist |-> h2]
        ELSE IF ~Usable(ld.ret)
        THEN [resp |-> Resp("predict", 500, ErrorBody("TypeError", ""),
                            <<>>, load, <<>>, NoLocals),
              model |-> ld.model, preprocess |-> ld.preprocess, hist |-> h2]
        ELSE [resp |-> Resp("predict", 200, Prediction(p), <<>>, load, <<>>,
                            [kind |-> "image", prob |-> p]),
              model |-> ld.model, preprocess |-> ld.preprocess, hist |-> h2]

\* str.strip()
Strip(u) ==
    CASE u = "  " -> ""
      [] u = " http://host/fire.jpg" -> "http://host/fire.jpg"
      [] OTHER -> u

\* `if not data or 'image_url' not in data`
HasUrl(body) == body.kind = "object" /\ body.has_url

\* resp.status_code in (403, 429)
Retryable(o) == o.kind = "response" /\ o.status \in {403, 429}

\* lines 175-179 (edge), 120 (api): the GETs issued, given what the upstream
\* answers to a first and to a second GET; an exception ends the sequence
Gets(s, net) ==
    IF s = "edge" /\ Retryable(net[1]) THEN <<net[1], net[2]>> ELSE <<net[1]>>

\* requests.get raised, or raise_for_status() raises on the response kept
FetchFailed(gets) ==
    \/ \E i \in 1..Len(gets) : gets[i].kind = "error"
    \/ gets[Len(gets)].status >= 400

\* predict_from_url(): POST /predict-from-url
predict_from_url_result(s, body, net, m, pp, h, wf, p) ==
    LET ld == load_model(m, pp, wf)
        load == LoadRec("api", h, m, ld.touched, ld.raised)
        h2 == HistAfter(h, ld.touched, ld.raised)
        gets == Gets(s, net)
        used == gets[Len(gets)]
        locals == [kind |-> "image", prob |-> p, used |-> used]
        nolocals == [kind |-> "fetch", used |-> used]
    IN  IF body.kind = "malformed"
        THEN [resp |-> Resp("url", 500, ErrorBody("400 Bad Request", ""),
                            <<>>, NoLoad, <<>>, NoLocals),
              model |-> m, preprocess |-> pp, hist |-> h]
        ELSE IF ~HasUrl(body)
        THEN [resp |-> Resp("url", 400, ErrorBody("No image_url in body", ""),
                            <<>>, NoLoad, <<>>, NoLocals),
              model |-> m, preprocess |-> pp, hist |-> h]
        ELSE IF ~body.url.isStr
        THEN [resp |-> Resp("url", 500, ErrorBody("AttributeError", ""),
                            <<>>, NoLoad, <<>>, NoLocals),
              model |-> m, preprocess |-> pp, hist |-> h]
        ELSE IF Strip(body.url.s) = ""
        THEN [resp |-> Resp("url", 400, ErrorBody("Empty image_url", ""),
                            <<>>, NoLoad, <<>>, NoLocals),
              model |-> m, preprocess |-> pp, hist |-> h]
        ELSE IF FetchFailed(gets)
        THEN [resp |-> Resp("url", 400, ErrorBody("Failed to fetch image", ""),
                            <<>>, NoLoad, gets, nolocals),
              model |-> m, preprocess |-> pp, hist |-> h]
        ELSE IF ~Decodes(used.content)
        THEN [resp |-> Resp("url", 500, ErrorBody("cannot identify image file", ""),
                            <<>>, NoLoad, gets, nolocals),
              model |-> m, preprocess |-> pp, hist |-> h]
        ELSE IF ld.raised # "none"
        THEN [resp |-> Resp("url", 500, ErrorBody(ld.raised, ""),
                            <<>>, load, gets, nolocals),
              model |-> ld.model, preprocess |-> ld.preprocess, hist |-> h2]
        ELSE IF ~Usable(ld.ret)
        THEN [resp |-> Resp("url", 500, ErrorBody("TypeError", ""),
                            <<>>, load, gets, nolocals),
              model |-> ld.model, preprocess |-> ld.preprocess, hist |-> h2]
        ELSE [resp |-> Resp("url", 200, Prediction(p), <<>>, load, gets, locals),
              model |-> ld.model, preprocess |-> ld.preprocess, hist |-> h2]

\* health(): GET /health
health_result(m, pp, h, wf) ==
    LET ld == load_model(m, pp, wf)
        load == LoadRec("api", h, m, ld.touched, ld.raised)
        locals == [kind |-> "health", onDisk |-> wf]
    IN  IF ld.raised # "none"
        THEN [resp |-> Resp("health", 500,
                            [kind |-> "unhealthy", status |-> "unhealthy",
                             error |-> ld.raised],
                            <<>>, load, <<>>, locals),
              model |-> ld.model, preprocess |-> ld.preprocess,
              hist |-> HistAfter(h, ld.touched, ld.raised)]
        ELSE [resp |-> Resp("health", 200,
                            [kind |-> "healthy", status |-> "healthy",
                             model_loaded |-> (ld.model # Unset)],
                            <<>>, load, <<>>, locals),
              model |-> ld.model, preprocess |-> ld.preprocess,
              hist |-> HistAfter(h, ld.touched, ld.raised)]

----------------------------------------------------------------------------
(* Inputs *)

\* JSON values a weather field may hold: null, 10, "25", "warm"
Values == {None, Num(10), NumStr(25), Text}

WeatherKeys ==
    {"MIN_TEMP", "minTemperature", "temperature", "MAX_TEMP", "maxTemperature",
     "AVG_WIND_SPEED", "windSpeed", "DAY_OF_YEAR"}

\* the dicts with at most n of the given keys
Dicts(keys, n) ==
    UNION {[S -> Values] : S \in {T \in SUBSET keys : Cardinality(T) <= n}}

\* flat bodies: the feature keys (and dayOfYear) at top level
FlatPayloads ==
    {[nested |-> FALSE, top |-> d, wd |-> EmptyDict] :
        d \in Dicts(WeatherKeys \cup {"dayOfYear"}, MaxKeys)}

\* nested bodies: a weatherData object, and beside it dayOfYear or a stray
\* top-level temperature
NestedPayloads ==
    {[nested |-> TRUE, top |-> t, wd |-> d] :
        t \in Dicts({"dayOfYear", "temperature"}, 1), d \in Dicts(WeatherKeys, MaxKeys)}

Malformed == [kind |-> "malformed"]
JsonNull == [kind |-> "null"]
Object(payload) == [kind |-> "object", payload |-> payload]

\* datetime.utcnow().timetuple().tm_yday at the time of the request
UtcDays == {200}

\* the two bodies the specification's test cases name
FlatExample ==
    [nested |-> FALSE, wd |-> EmptyDict,
     top |-> [k \in {"MIN_TEMP", "MAX_TEMP", "AVG_WIND_SPEED", "DAY_OF_YEAR"} |->
                CASE k = "MIN_TEMP" -> Num(10)
                  [] k = "MAX_TEMP" -> Num(25)
                  [] k = "AVG_WIND_SPEED" -> Num(5)
                  [] OTHER -> Num(180)]]

NestedExample ==
    [nested |-> TRUE, top |-> EmptyDict,
     wd |-> [k \in {"temperature", "windSpeed"} |->
                IF k = "temperature" THEN Num(20) ELSE Num(3)]]

WeatherRequests ==
    {[ep |-> "weather", body |-> b, today |-> d] :
        b \in {Malformed, JsonNull}
               \cup {Object(q) : q \in FlatPayloads \cup NestedPayloads
                                        \cup {FlatExample, NestedExample}},
        d \in UtcDays}

\* feature lists a training run may have written to feature_names.json (and
\* trained the classifier on): the list of train_fire_risk_model.py, other orders
\* and selections of it, and one with a column the API does not extract
FeatureLists ==
    {FEATURES,
     <<"DAY_OF_YEAR", "AVG_WIND_SPEED", "MAX_TEMP", "MIN_TEMP">>,
     <<"AVG_WIND_SPEED", "MIN_TEMP">>,
     <<"MIN_TEMP", "MAX_TEMP", "AVG_WIND_SPEED", "DAY_OF_YEAR", "HUMIDITY">>}

\* class labels of the classifier: FIRE_START_DAY cast to int
Classes == {0, 1}

\* probabilities the classifier answers, in units of 1e-5
WeatherProbs == {87654}

NoHist == [succ |-> FALSE, failed |-> FALSE]

\* a thread that is in no loader call
Idle == [fn |-> "none"]

Threads == {1, 2}

----------------------------------------------------------------------------
(* More inputs *)

\* most values on each side of 0.5, in units of 1e-5, the image model answers
ProbWindow == 6

\* sigmoid outputs: the two ends and a window around 0.5
Probs == {0, One} \cup ((Half - ProbWindow)..(Half + ProbWindow))

\* a few sigmoid outputs, for runs that are not about the numbers
FewProbs == {Half, 91234}

PredictRequests ==
    {[ep |-> "predict", hasFile |-> FALSE, filename |-> "", data |-> "none"]}
    \cup {[ep |-> "predict", hasFile |-> TRUE, filename |-> f, data |-> d] :
            f \in {"", "fire.jpg"}, d \in {"image", "garbage"}}

\* image_url values: strings, and a JSON number
UrlValues ==
    {[isStr |-> TRUE, s |-> u] : u \in {"", "  ", "http://host/fire.jpg",
                                        " http://host/fire.jpg"}}
    \cup {[isStr |-> FALSE, s |-> "42"]}

UrlBodies ==
    {Malformed, JsonNull, [kind |-> "object", has_url |-> FALSE]}
    \cup {[kind |-> "object", has_url |-> TRUE, url |-> u] : u \in UrlValues}

\* the bodies that name a URL to fetch
FetchBodies ==
    {b \in UrlBodies : b.kind = "object" /\ b.has_url /\ b.url.isStr
                       /\ b.url.s \notin {"", "  "}}

RequestError == [kind |-> "error"]

\* what the image host does with one GET: the request fails, or a response
Outcomes ==
    {RequestError}
    \cup {[kind |-> "response", status |-> 200, content |-> c] : c \in {"image", "garbage"}}
    \cup {[kind |-> "response", status |-> st, content |-> "page"] : st \in {403, 429, 404}}

\* fewer of them, for runs that are about the loaders
FewOutcomes ==
    {RequestError, [kind |-> "response", status |-> 200, content |-> "image"],
     [kind |-> "response", status |-> 429, content |-> "page"]}

\* /predict-from-url requests with what their environment will answer: the image
\* host to a first and a second GET (from O), the model's sigmoid output (from
\* P); a body that names no URL meets no host and no model
UrlRequests(O, P) ==
    {[ep |-> "url", body |-> b, net |-> <<RequestError, RequestError>>, p |-> Half] :
        b \in UrlBodies \ FetchBodies}
    \cup {[ep |-> "url", body |-> b, net |-> <<o1, o2>>, p |-> p] :
            b \in FetchBodies, o1 \in O, o2 \in O, p \in P}

UrlRequestsFew == UrlRequests(FewOutcomes, FewProbs)

UrlRequestsAll == UrlRequests(Outcomes, Probs)

\* weather bodies for runs that are not about the extraction
FewWeatherRequests ==
    {[ep |-> "weather", body |-> b, today |-> d] :
        b \in {Malformed, JsonNull, Object(FlatExample), Object(NestedExample),
               Object([NestedExample EXCEPT !.wd = EmptyDict])},
        d \in UtcDays}

HealthRequest == [ep |-> "health"]

----------------------------------------------------------------------------
(* The server *)

Serving == phase = "serving"

\* POST /predict-weather-risk (edge only)
predict_weather_risk(r) ==
    /\ Serving
    /\ svc = "edge"
    /\ \E cls \in Classes, p \in WeatherProbs :
        LET x == weather_risk(r.body, r.today, inf_model, inf_feature_names,
                              hist.inf, rfFile, fnFile, trained, cls, p)
        IN  /\ resp' = x.resp
            /\ inf_model' = x.model
            /\ inf_feature_names' = x.names
            /\ hist' = [hist EXCEPT !.inf = x.hist]
    /\ req' = r
    /\ UNCHANGED <<svc, entry, phase, wFile, api_model, api_preprocess, rfFile, fnFile,
                   trained, pc, loc>>

\* POST /predict
predict(r, P) ==
    /\ Serving
    /\ \E p \in P :
        LET x == predict_upload(r, api_model, api_preprocess, hist.api, wFile, p)
        IN  /\ resp' = x.resp
            /\ api_model' = x.model
            /\ api_preprocess' = x.preprocess
            /\ hist' = [hist EXCEPT !.api = x.hist]
    /\ req' = r
    /\ UNCHANGED <<svc, entry, phase, wFile, rfFile, fnFile, trained, inf_model,
                   inf_feature_names, pc, loc>>

\* POST /predict-from-url
predict_from_url(r) ==
    /\ Serving
    /\ LET x == predict_from_url_result(svc, r.body, r.net, api_model,
                                        api_preprocess, hist.api, wFile, r.p)
       IN  /\ resp' = x.resp
           /\ api_model' = x.model
           /\ api_preprocess' = x.preprocess
           /\ hist' = [hist EXCEPT !.api = x.hist]
    /\ req' = [ep |-> r.ep, body |-> r.body]
    /\ UNCHANGED <<svc, entry, phase, wFile, rfFile, fnFile, trained, inf_model,
                   inf_feature_names, pc, loc>>

\* GET /health
health ==
    /\ Serving
    /\ LET x == health_result(api_model, api_preprocess, hist.api, wFile)
       IN  /\ resp' = x.resp
           /\ api_model' = x.model
           /\ api_preprocess' = x.preprocess
           /\ hist' = [hist EXCEPT !.api = x.hist]
    /\ req' = HealthRequest
    /\ UNCHANGED <<svc, entry, phase, wFile, rfFile, fnFile, trained, inf_model,
                   inf_feature_names, pc, loc>>

\* the __main__ block: load the image model, then app.run, or exit(1)
main ==
    /\ phase = "boot"
    /\ LET ld == load_model(api_model, api_preprocess, wFile)
       IN  /\ api_model' = ld.model
           /\ api_preprocess' = ld.preprocess
           /\ hist' = [hist EXCEPT !.api = HistAfter(hist.api, ld.touched, ld.raised)]
           /\ phase' = IF ld.raised = "none" THEN "serving" ELSE "exited"
    /\ UNCHANGED <<svc, entry, wFile, rfFile, fnFile, trained, inf_model,
                   inf_feature_names, req, resp, pc, loc>>

\* the operator removes or installs an artifact while the process runs
ChangeArtifacts ==
    /\ phase # "exited"
    /\ \E w \in {"present", "absent"}, j \in {"present", "absent"},
          n \in {"present", "absent"} :
        /\ <<w, j, n>> # <<wFile, rfFile, fnFile>>
        /\ wFile' = w
        /\ rfFile' = j
        /\ fnFile' = n
    /\ UNCHANGED <<svc, entry, phase, api_model, api_preprocess, trained, inf_model,
                   inf_feature_names, req, resp, hist, pc, loc>>

\* the process as started: run as a script (__main__ runs first), or imported by
\* a WSGI server, which serves at once; artifacts on disk or not
Init ==
    /\ svc \in {"edge", "api"}
    /\ entry \in {"script", "wsgi"}
    /\ phase = IF entry = "script" THEN "boot" ELSE "serving"
    /\ wFile \in {"present", "absent"}
    /\ rfFile \in {"present", "absent"}
    /\ fnFile \in {"present", "absent"}
    /\ svc = "api" => (rfFile = "absent" /\ fnFile = "absent")
    /\ trained = FEATURES
    /\ api_model = Unset
    /\ api_preprocess = Unset
    /\ inf_model = Unset
    /\ inf_feature_names = <<>>
    /\ hist = [api |-> NoHist, inf |-> NoHist]
    /\ req = NoResp
    /\ resp = NoResp
    /\ pc = [t \in Threads |-> "idle"]
    /\ loc = [t \in Threads |-> Idle]

Next ==
    \/ main
    \/ \E r \in PredictRequests : predict(r, FewProbs)
    \/ \E r \in UrlRequestsFew : predict_from_url(r)
    \/ \E r \in FewWeatherRequests : predict_weather_risk(r)
    \/ health
    \/ ChangeArtifacts

Spec == Init /\ [][Next]_vars

\* the weather handler alone, on every generated body, as the first request that
\* reaches the tabular model
InitWeather ==
    /\ svc = "edge"
    /\ entry = "script"
    /\ phase = "serving"
    /\ wFile = "present"
    /\ api_model = ResNet18
    /\ api_preprocess = Compose
    /\ rfFile \in {"present", "absent"}
    /\ fnFile = "present"
    /\ trained \in FeatureLists
    /\ inf_model = Unset
    /\ inf_feature_names = <<>>
    /\ hist = [api |-> [succ |-> TRUE, failed |-> FALSE], inf |-> NoHist]
    /\ req \in WeatherRequests
    /\ resp = NoResp
    /\ pc = [t \in Threads |-> "idle"]
    /\ loc = [t \in Threads |-> Idle]

NextWeather == resp = NoResp /\ predict_weather_risk(req)

SpecWeather == InitWeather /\ [][NextWeather]_vars

\* the image handlers alone, with the model loaded, on every sigmoid output
InitImage ==
    /\ svc \in {"edge", "api"}
    /\ entry = "script"
    /\ phase = "serving"
    /\ wFile = "present"
    /\ api_model = ResNet18
    /\ api_preprocess = Compose
    /\ rfFile = "absent"
    /\ fnFile = "absent"
    /\ trained = FEATURES
    /\ inf_model = Unset
    /\ inf_feature_names = <<>>
    /\ hist = [api |-> [succ |-> TRUE, failed |-> FALSE], inf |-> NoHist]
    /\ req = NoResp
    /\ resp = NoResp
    /\ pc = [t \in Threads |-> "idle"]
    /\ loc = [t \in Threads |-> Idle]

NextImage ==
    \/ \E r \in PredictRequests : predict(r, Probs)
    \/ \E r \in UrlRequestsAll : predict_from_url(r)

SpecImage == InitImage /\ [][NextImage]_vars

----------------------------------------------------------------------------
(* The loaders, statement by statement, under a threaded server *)

\* the frame of one loader call: its locals, what it returns or raises
Frame(fn) ==
    [fn |-> fn, model |-> Unset, preprocess |-> Unset, retPair |-> <<Unset, Unset>>,
     retNames |-> <<>>, raised |-> "none"]

Goto(t, label) == pc' = [pc EXCEPT ![t] = label]

ApiState == <<api_model, api_preprocess>>
InfState == <<inf_model, inf_feature_names>>
Fixed == <<svc, entry, phase, wFile, rfFile, fnFile, trained, req, resp, hist>>

\* a request thread enters load_model()
CallLoadModel(t) ==
    /\ pc[t] = "idle"
    /\ Goto(t, "lm45")
    /\ loc' = [loc EXCEPT ![t] = Frame("load_model")]
    /\ UNCHANGED <<ApiState, InfState, Fixed>>

\* line 45: if _model is not None
LoadModel45(t) ==
    /\ pc[t] = "lm45"
    /\ Goto(t, IF api_model # Unset THEN "lm46" ELSE "lm48")
    /\ UNCHANGED <<loc, ApiState, InfState, Fixed>>

\* line 46: return _model, _preprocess
LoadModel46(t) ==
    /\ pc[t] = "lm46"
    /\ Goto(t, "done")
    /\ loc' = [loc EXCEPT ![t].retPair = <<api_model, api_preprocess>>]
    /\ UNCHANGED <<ApiState, InfState, Fixed>>

\* lines 48-52: if not MODEL_PATH.exists(): raise FileNotFoundError
LoadModel48(t) ==
    /\ pc[t] = "lm48"
    /\ IF wFile = "present"
       THEN Goto(t, "lm55") /\ UNCHANGED loc
       ELSE Goto(t, "done") /\ loc' = [loc EXCEPT ![t].raised = "FileNotFoundError"]
    /\ UNCHANGED <<ApiState, InfState, Fixed>>

\* lines 55-65: build the model and the transform in locals
LoadModel55(t) ==
    /\ pc[t] = "lm55"
    /\ Goto(t, "lm67")
    /\ loc' = [loc EXCEPT ![t].model = ResNet18, ![t].preprocess = Compose]
    /\ UNCHANGED <<ApiState, InfState, Fixed>>

\* line 67: _model = model
LoadModel67(t) ==
    /\ pc[t] = "lm67"
    /\ Goto(t, "lm68")
    /\ api_model' = loc[t].model
    /\ UNCHANGED <<loc, api_preprocess, InfState, Fixed>>

\* line 68: _preprocess = preprocess
LoadModel68(t) ==
    /\ pc[t] = "lm68"
    /\ Goto(t, "lm70")
    /\ api_preprocess' = loc[t].preprocess
    /\ UNCHANGED <<loc, api_model, InfState, Fixed>>

\* line 70: return model, preprocess
LoadModel70(t) ==
    /\ pc[t] = "lm70"
    /\ Goto(t, "done")
    /\ loc' = [loc EXCEPT ![t].retPair = <<loc[t].model, loc[t].preprocess>>]
    /\ UNCHANGED <<ApiState, InfState, Fixed>>

\* a request thread enters get_feature_names(), which calls _ensure_loaded()
CallGetFeatureNames(t) ==
    /\ pc[t] = "idle"
    /\ svc = "edge"
    /\ Goto(t, "el25")
    /\ loc' = [loc EXCEPT ![t] = Frame("get_feature_names")]
    /\ UNCHANGED <<ApiState, InfState, Fixed>>

\* inference.py line 25: if _model is None
EnsureLoaded25(t) ==
    /\ pc[t] = "el25"
    /\ Goto(t, IF inf_model = Unset THEN "el26" ELSE "gf39")
    /\ UNCHANGED <<loc, ApiState, InfState, Fixed>>

\* lines 26-30: if not MODEL_PATH.is_file(): raise FileNotFoundError
EnsureLoaded26(t) ==
    /\ pc[t] = "el26"
    /\ IF rfFile = "present"
       THEN Goto(t, "el31") /\ UNCHANGED loc
       ELSE Goto(t, "done") /\ loc' = [loc EXCEPT ![t].raised = "FileNotFoundError"]
    /\ UNCHANGED <<ApiState, InfState, Fixed>>

\* line 31: _model = joblib.load(MODEL_PATH)
EnsureLoaded31(t) ==
    /\ pc[t] = "el31"
    /\ Goto(t, "el32")
    /\ inf_model' = Classifier(trained)
    /\ UNCHANGED <<loc, inf_feature_names, ApiState, Fixed>>

\* lines 32-33: with open(FEATURE_NAMES_PATH) as f: _feature_names = json.load(f)
EnsureLoaded32(t) ==
    /\ pc[t] = "el32"
    /\ IF fnFile = "present"
       THEN /\ Goto(t, "gf39")
            /\ inf_feature_names' = trained
            /\ UNCHANGED loc
       ELSE /\ Goto(t, "done")
            /\ loc' = [loc EXCEPT ![t].raised = "FileNotFoundError"]
            /\ UNCHANGED inf_feature_names
    /\ UNCHANGED <<inf_model, ApiState, Fixed>>

\* line 39: return list(_feature_names)
GetFeatureNames39(t) ==
    /\ pc[t] = "gf39"
    /\ Goto(t, "done")
    /\ loc' = [loc EXCEPT ![t].retNames = inf_feature_names]
    /\ UNCHANGED <<ApiState, InfState, Fixed>>

\* the handler takes the result; the thread serves its next request
Finish(t) ==
    /\ pc[t] = "done"
    /\ Goto(t, "idle")
    /\ loc' = [loc EXCEPT ![t] = Idle]
    /\ UNCHANGED <<ApiState, InfState, Fixed>>

\* a serving process with its artifacts on disk: started as a script (image
\* model loaded by __main__) or by a WSGI server (nothing loaded yet)
InitRace ==
    /\ svc \in {"edge", "api"}
    /\ entry \in {"script", "wsgi"}
    /\ phase = "serving"
    /\ wFile = "present"
    /\ rfFile = IF svc = "edge" THEN "present" ELSE "absent"
    /\ fnFile = rfFile
    /\ trained = FEATURES
    /\ api_model = IF entry = "script" THEN ResNet18 ELSE Unset
    /\ api_preprocess = IF entry = "script" THEN Compose ELSE Unset
    /\ inf_model = Unset
    /\ inf_feature_names = <<>>
    /\ hist = [api |-> NoHist, inf |-> NoHist]
    /\ req = NoResp
    /\ resp = NoResp
    /\ pc = [t \in Threads |-> "idle"]
    /\ loc = [t \in Threads |-> Idle]

NextRace ==
    \E t \in Threads :
        \/ CallLoadModel(t)
        \/ LoadModel45(t)
        \/ LoadModel46(t)
        \/ LoadModel48(t)
        \/ LoadModel55(t)
        \/ LoadModel67(t)
        \/ LoadModel68(t)
        \/ LoadModel70(t)
        \/ CallGetFeatureNames(t)
        \/ EnsureLoaded25(t)
        \/ EnsureLoaded26(t)
        \/ EnsureLoaded31(t)
        \/ EnsureLoaded32(t)
        \/ GetFeatureNames39(t)
        \/ Finish(t)

SpecRace == InitRace /\ [][NextRace]_vars

----------------------------------------------------------------------------
(* The weather handler's contract, stated from the request *)

\* the value under the first of `keys` that object d contains, None when it
\* contains none of them
FirstContained(d, keys) ==
    IF \E i \in 1..Len(keys) : keys[i] \in DOMAIN d
    THEN d[keys[CHOOSE i \in 1..Len(keys) :
                  keys[i] \in DOMAIN d /\ \A j \in 1..(i - 1) : keys[j] \notin DOMAIN d]]
    ELSE None

\* the weather object of a body
ClaimedWeather(q) == IF q.nested THEN q.wd ELSE q.top

\* the value the priority chain of feature `name` resolves to
Claimed(q, today, name) ==
    CASE name = "MIN_TEMP" ->
            FirstContained(ClaimedWeather(q), <<"MIN_TEMP", "minTemperature", "temperature">>)
      [] name = "MAX_TEMP" ->
            FirstContained(ClaimedWeather(q), <<"MAX_TEMP", "maxTemperature", "temperature">>)
      [] name = "AVG_WIND_SPEED" ->
            FirstContained(ClaimedWeather(q), <<"AVG_WIND_SPEED", "windSpeed">>)
      [] name = "DAY_OF_YEAR" ->
            LET given == IF "DAY_OF_YEAR" \in DOMAIN ClaimedWeather(q)
                         THEN ClaimedWeather(q)["DAY_OF_YEAR"]
                         ELSE FirstContained(q.top, <<"dayOfYear">>)
            IN  IF given = None THEN Num(today) ELSE given

\* a value is a number, or a string that reads as one
Numeric(x) == x.t \in {"num", "numstr"}

\* the request was a weather request with a non-empty JSON object body, and it
\* has been answered
WeatherAnswered ==
    /\ resp.ep = "weather"
    /\ req.body.kind = "object"
    /\ (req.body.payload.nested \/ DOMAIN req.body.payload.top # {})

C2_PriorityChain ==
    WeatherAnswered =>
        /\ resp.locals.min_temp = Claimed(req.body.payload, req.today, "MIN_TEMP")
        /\ resp.locals.max_temp = Claimed(req.body.payload, req.today, "MAX_TEMP")
        /\ resp.locals.avg_wind_speed =
              Claimed(req.body.payload, req.today, "AVG_WIND_SPEED")
        /\ resp.locals.day_of_year = Claimed(req.body.payload, req.today, "DAY_OF_YEAR")
        /\ (/\ req.body.payload.nested
            /\ DOMAIN req.body.payload.wd = {"temperature", "windSpeed"}
            /\ "dayOfYear" \notin DOMAIN req.body.payload.top
            /\ resp.status = 200) =>
                \A i \in 1..Len(resp.out.features_used) :
                    LET f == resp.out.features_used[i]
                    IN  /\ f.k \in {"MIN_TEMP", "MAX_TEMP"} =>
                              f.v = req.body.payload.wd["temperature"].v
                        /\ f.k = "AVG_WIND_SPEED" =>
                              f.v = req.body.payload.wd["windSpeed"].v
                        /\ f.k = "DAY_OF_YEAR" => f.v = req.today

\* C2's case: {weatherData: {temperature: 20, windSpeed: 3}} answered 200 with
\* all four features
C2_Witness ==
    /\ resp.ep = "weather"
    /\ req.body = Object(NestedExample)
    /\ resp.status = 200
    /\ Len(resp.out.features_used) = 4

\* the first feature, in the order MIN_TEMP, MAX_TEMP, AVG_WIND_SPEED,
\* DAY_OF_YEAR, whose resolved value is missing or not numeric; "" when all are
FirstOffending(q, today) ==
    IF \E i \in 1..Len(FEATURES) : ~Numeric(Claimed(q, today, FEATURES[i]))
    THEN FEATURES[CHOOSE i \in 1..Len(FEATURES) :
                    /\ ~Numeric(Claimed(q, today, FEATURES[i]))
                    /\ \A j \in 1..(i - 1) : Numeric(Claimed(q, today, FEATURES[j]))]
    ELSE ""

----------------------------------------------------------------------------
(* The HTTP contract of the image handlers and of the loaders *)

\* the request failed validation: no body, a body that is not JSON, a missing
\* or empty field
ValidationError ==
    \/ req.body.kind \in {"malformed", "null"}
    \/ /\ resp.ep = "url"
       /\ req.body.kind = "object"
       /\ (~req.body.has_url \/ (req.body.url.isStr /\ req.body.url.s \in {"", "  "}))
    \/ /\ resp.ep = "weather"
       /\ req.body.kind = "object"
       /\ \/ ~(req.body.payload.nested \/ DOMAIN req.body.payload.top # {})
          \/ FirstOffending(req.body.payload, req.today) # ""

\* the image could not be fetched: a GET failed or the last status is not 2xx
FetchError ==
    /\ resp.ep = "url"
    /\ resp.gets # <<>>
    /\ \/ \E i \in 1..Len(resp.gets) : resp.gets[i].kind = "error"
       \/ resp.gets[Len(resp.gets)].status >= 400

\* C4: on /predict-from-url and /predict-weather-risk a validation error (no
\* body, a missing or empty field, a body that is not parseable JSON) is
\* answered 400, a fetch error 400, and every other failure 500 with the
\* exception's message; a body that fails JSON parsing gets 400, not 500
C4_StatusTaxonomy ==
    resp.ep \in {"url", "weather"} =>
        /\ ValidationError => resp.status = 400
        /\ (~ValidationError /\ FetchError) => resp.status = 400
        /\ (~ValidationError /\ ~FetchError /\ resp.status # 200) =>
              (resp.status = 500 /\ resp.out.kind = "error" /\ resp.out.error # "")

\* C5: a /predict-from-url request with a non-empty URL issues a second GET
\* exactly when the first response is 403 or 429, never more than two, and works
\* on the last response received, in the edge handler and in the api handler
C5_RetryOnce ==
    (resp.ep = "url" /\ req.body \in FetchBodies) =>
        /\ Len(resp.gets) \in {1, 2}
        /\ Len(resp.gets) = 2 <=>
              (resp.gets[1].kind = "response" /\ resp.gets[1].status \in {403, 429})
        /\ resp.locals.used = resp.gets[Len(resp.gets)]

ImageAnswer200 == resp.ep \in {"predict", "url"} /\ resp.status = 200

\* C6 as claimed: in every 200 answer of /predict and /predict-from-url the
\* returned probability is in [0,1] and fire_detected equals (returned
\* probability > 0.5)
C6_DetectedIffReturnedAboveHalf ==
    ImageAnswer200 =>
        /\ resp.out.probability \in 0..(One \div 10)
        /\ resp.out.fire_detected <=> (resp.out.probability > Half \div 10)

\* C6 as amended: the returned probability is in [0,1] and is the model's
\* probability rounded to 4 decimals; fire_detected equals (the model's
\* probability before rounding > 0.5); so a returned probability above 0.5
\* implies fire_detected, and fire_detected implies a returned probability of
\* at least 0.5
C6_DetectedIffModelAboveHalf ==
    ImageAnswer200 =>
        /\ resp.out.probability \in 0..(One \div 10)
        /\ resp.out.probability * 10 - resp.locals.prob \in -5..5
        /\ resp.out.fire_detected <=> (resp.locals.prob > Half)
        /\ (resp.out.probability > Half \div 10) => resp.out.fire_detected
        /\ resp.out.fire_detected => (resp.out.probability >= Half \div 10)

\* C6's case: the model answers just above 0.5 and the answer says
\* fire_detected with a probability of 0.5
C6_Witness ==
    /\ ImageAnswer200
    /\ resp.locals.prob > Half
    /\ resp.out.fire_detected
    /\ resp.out.probability = Half \div 10

\* C7: sequentially, once a loader's load has succeeded every later call of it
\* returns the cached handle without touching the filesystem; a load that
\* failed because an artifact is absent is not cached, so the next call goes
\* to the disk again
C7_LoadOnceRetryAfterFailure ==
    resp.ep # "none" =>
        (resp.load.loader # "none" =>
            /\ resp.load.succBefore =>
                  (resp.load.touched = {} /\ resp.load.raised = "none")
            /\ (resp.load.failBefore /\ ~resp.load.succBefore) =>
                  resp.load.touched # {})

\* C8: run as a script, the service handles no request on any endpoint before
\* the model that endpoint uses is loaded (a handler that asks for its model
\* finds it loaded), and exits without serving when the startup load fails
C8_NoTrafficWithoutModel ==
    entry = "script" =>
        /\ (resp.ep # "none" /\ resp.load.loader # "none") =>
              (resp.load.cachedBefore /\ resp.load.raised = "none")
        /\ phase = "exited" => (resp.ep = "none" /\ api_model = Unset)
        /\ phase = "serving" => api_model # Unset

\* C9: /health answers 200, "healthy", model_loaded = true when the weights are
\* on disk or the model is cached, and 500, "unhealthy" with the load error
\* otherwise; it never answers healthy while the handle is unset
C9_Health ==
    resp.ep = "health" =>
        /\ (resp.load.cachedBefore \/ resp.locals.onDisk = "present") =>
              /\ resp.status = 200
              /\ resp.out.status = "healthy"
              /\ resp.out.model_loaded
        /\ ~(resp.load.cachedBefore \/ resp.locals.onDisk = "present") =>
              /\ resp.status = 500
              /\ resp.out.status = "unhealthy"
              /\ resp.out.error = "FileNotFoundError"
        /\ resp.status = 200 => api_model # Unset

\* C9's case: after a failed attempt, health answers healthy from the cache
\* while the weights file is gone
C9_Witness ==
    /\ resp.ep = "health"
    /\ resp.status = 200
    /\ resp.locals.onDisk = "absent"
    /\ resp.load.cachedBefore
    /\ entry = "wsgi"

\* C10: when several requests call a loader concurrently before the first
\* load has completed, every loader call that returns hands back a fully
\* initialised handle: load_model a model and a preprocess that are both set,
\* get_feature_names the list read from the feature-name file whenever the
\* tabular model handle is set
C10_RaceOnlyDuplicatesLoads ==
    \A t \in Threads :
        (pc[t] = "done" /\ loc[t].raised = "none") =>
            /\ loc[t].fn = "load_model" =>
                  (loc[t].retPair[1] # Unset /\ loc[t].retPair[2] # Unset)
            /\ (loc[t].fn = "get_feature_names" /\ inf_model # Unset) =>
                  loc[t].retNames = trained

\* C11: a failed tabular-model load leaves the loader state unchanged: after a
\* call in which _ensure_loaded raised, _model is still None and _feature_names
\* is still empty; in every state of sequential use, _model is not None implies
\* _feature_names is the list read from the feature-name file
C11_FailedLoadLeavesStateUnchanged ==
    /\ inf_model # Unset => inf_feature_names = trained
    /\ (resp.ep = "weather" /\ resp.load.loader = "inf" /\ resp.load.raised # "none") =>
          (inf_model = Unset /\ inf_feature_names = <<>>)

====
